---- MODULE Spec2Model ----
(***************************************************************************)
(* Model of src/server.js: an Express backend over one SQLite connection.  *)
(* The state is the three tables (submitted_content, formulas, problems),  *)
(* the process configuration, the wall clock that CURRENT_TIMESTAMP reads, *)
(* and the requests being handled, each with the position of its handler   *)
(* (the callbacks of db.get / db.run / the awaited model call).            *)
(***************************************************************************)
EXTENDS Integers, Sequences, FiniteSets, TLC

\* ------------------------------------------------------------------------
\* Bounds of the model
\* ------------------------------------------------------------------------
\* Number of requests that arrive in one behaviour.
MaxReq == 2
\* Last value of the one-second clock behind CURRENT_TIMESTAMP.
MaxClock == 1
\* Rows the two listed tables may hold while finished requests still leave.
MaxRows == 2

\* ------------------------------------------------------------------------
\* JavaScript values (request bodies, bound parameters, column values).
\* A string is its sequence of characters.
\* ------------------------------------------------------------------------
Undefined == [t |-> "undefined"]
Null == [t |-> "null"]
Str(cs) == [t |-> "string", cs |-> cs]
Bool(b) == [t |-> "boolean", b |-> b]
Num(n) == [t |-> "number", n |-> n]
Arr(xs) == [t |-> "array", items |-> xs]
Obj(ps) == [t |-> "object", props |-> ps]

\* JavaScript truthiness, as used by `!key`, `variables ? ... : null`,
\* `apiKey || process.env.GEMINI_API_KEY`, `row ? row.id : this.lastID`.
Truthy(v) ==
    CASE v.t = "undefined" -> FALSE
      [] v.t = "null" -> FALSE
      [] v.t = "string" -> v.cs # <<>>
      [] v.t = "boolean" -> v.b
      [] v.t = "number" -> v.n # 0
      [] OTHER -> TRUE

\* a || b
Or(a, b) == IF Truthy(a) THEN a ELSE b

\* ------------------------------------------------------------------------
\* JSON.stringify and JSON.parse on the characters of the text.
\* ------------------------------------------------------------------------
Quote == "\""
Backslash == "\\"

RECURSIVE EscapeChars(_)
EscapeChars(cs) ==
    IF cs = <<>> THEN <<>>
    ELSE (IF Head(cs) \in {Quote, Backslash}
          THEN <<Backslash, Head(cs)>>
          ELSE <<Head(cs)>>) \o EscapeChars(Tail(cs))

QuoteString(cs) == <<Quote>> \o EscapeChars(cs) \o <<Quote>>

RECURSIVE StringifyChars(_)
RECURSIVE StringifyItems(_)
RECURSIVE StringifyProps(_)
StringifyItems(xs) ==
    IF xs = <<>> THEN <<>>
    ELSE IF Len(xs) = 1 THEN StringifyChars(xs[1])
    ELSE StringifyChars(Head(xs)) \o <<",">> \o StringifyItems(Tail(xs))
StringifyProps(ps) ==
    IF ps = <<>> THEN <<>>
    ELSE LET one == QuoteString(Head(ps)[1]) \o <<":">> \o StringifyChars(Head(ps)[2])
         IN  IF Len(ps) = 1 THEN one
             ELSE one \o <<",">> \o StringifyProps(Tail(ps))
StringifyChars(v) ==
    CASE v.t = "string" -> QuoteString(v.cs)
      [] v.t = "boolean" -> IF v.b THEN <<"t", "r", "u", "e">>
                            ELSE <<"f", "a", "l", "s", "e">>
      [] v.t = "null" -> <<"n", "u", "l", "l">>
      [] v.t = "array" -> <<"[">> \o StringifyItems(v.items) \o <<"]">>
      [] v.t = "object" -> <<"{">> \o StringifyProps(v.props) \o <<"}">>
      [] OTHER -> <<"n", "u", "l", "l">>

\* JSON.stringify(v): a JavaScript string
JSONStringify(v) == Str(StringifyChars(v))

\* The parser returns [ok, val, next]: the value read at position i and the
\* position after it; ok = FALSE is JSON.parse's SyntaxError.
ParseFail == [ok |-> FALSE, val |-> Undefined, next |-> 0]

StartsWith(cs, i, word) ==
    /\ i + Len(word) - 1 <= Len(cs)
    /\ SubSeq(cs, i, i + Len(word) - 1) = word

RECURSIVE ParseString(_, _, _)
ParseString(cs, i, acc) ==
    IF i > Len(cs) THEN ParseFail
    ELSE IF cs[i] = Quote THEN [ok |-> TRUE, val |-> acc, next |-> i + 1]
    ELSE IF cs[i] = Backslash
         THEN IF i + 1 > Len(cs) THEN ParseFail
              ELSE ParseString(cs, i + 2, Append(acc, cs[i + 1]))
    ELSE ParseString(cs, i + 1, Append(acc, cs[i]))

RECURSIVE ParseValue(_, _)
RECURSIVE ParseItems(_, _, _)
RECURSIVE ParseProps(_, _, _)
ParseItems(cs, i, acc) ==
    LET v == ParseValue(cs, i)
    IN  IF ~v.ok \/ v.next > Len(cs) THEN ParseFail
        ELSE IF cs[v.next] = "]"
             THEN [ok |-> TRUE, val |-> Arr(Append(acc, v.val)), next |-> v.next + 1]
        ELSE IF cs[v.next] = ","
             THEN ParseItems(cs, v.next + 1, Append(acc, v.val))
        ELSE ParseFail
ParseProps(cs, i, acc) ==
    IF i > Len(cs) \/ cs[i] # Quote THEN ParseFail
    ELSE LET k == ParseString(cs, i + 1, <<>>)
         IN  IF ~k.ok \/ k.next > Len(cs) \/ cs[k.next] # ":" THEN ParseFail
             ELSE LET v == ParseValue(cs, k.next + 1)
                  IN  IF ~v.ok \/ v.next > Len(cs) THEN ParseFail
                      ELSE IF cs[v.next] = "}"
                           THEN [ok |-> TRUE,
                                 val |-> Obj(Append(acc, <<k.val, v.val>>)),
                                 next |-> v.next + 1]
                      ELSE IF cs[v.next] = ","
                           THEN ParseProps(cs, v.next + 1,
                                           Append(acc, <<k.val, v.val>>))
                      ELSE ParseFail
ParseValue(cs, i) ==
    IF i > Len(cs) THEN ParseFail
    ELSE IF cs[i] = Quote
         THEN LET s == ParseString(cs, i + 1, <<>>)
              IN  IF s.ok THEN [s EXCEPT !.val = Str(s.val)] ELSE ParseFail
    ELSE IF cs[i] = "["
         THEN IF i + 1 <= Len(cs) /\ cs[i + 1] = "]"
              THEN [ok |-> TRUE, val |-> Arr(<<>>), next |-> i + 2]
              ELSE ParseItems(cs, i + 1, <<>>)
    ELSE IF cs[i] = "{"
         THEN IF i + 1 <= Len(cs) /\ cs[i + 1] = "}"
              THEN [ok |-> TRUE, val |-> Obj(<<>>), next |-> i + 2]
              ELSE ParseProps(cs, i + 1, <<>>)
    ELSE IF StartsWith(cs, i, <<"t", "r", "u", "e">>)
         THEN [ok |-> TRUE, val |-> Bool(TRUE), next |-> i + 4]
    ELSE IF StartsWith(cs, i, <<"f", "a", "l", "s", "e">>)
         THEN [ok |-> TRUE, val |-> Bool(FALSE), next |-> i + 5]
    ELSE IF StartsWith(cs, i, <<"n", "u", "l", "l">>)
         THEN [ok |-> TRUE, val |-> Null, next |-> i + 4]
    ELSE ParseFail

\* JSON.parse(s) of a JavaScript string s; SyntaxError is the value ParseError
ParseError == [t |-> "SyntaxError"]
JSONParse(s) ==
    LET r == ParseValue(s.cs, 1)
    IN  IF r.ok /\ r.next = Len(s.cs) + 1 THEN r.val ELSE ParseError


\* ------------------------------------------------------------------------
\* State
\* ------------------------------------------------------------------------
VARIABLES
    formulas,           \* rows of table formulas, in rowid order
    problems,           \* rows of table problems, in rowid order
    submitted_content,  \* rows of table submitted_content, in rowid order
    sqlite_sequence,    \* AUTOINCREMENT counter of each table
    env,                \* process.env
    now,                \* the clock CURRENT_TIMESTAMP reads (seconds)
    reqs                \* the requests, in arrival order, with their handler state

vars == <<formulas, problems, submitted_content, sqlite_sequence, env, now, reqs>>
tables == <<formulas, problems, submitted_content, sqlite_sequence>>

\* Characters, in the byte order SQLite's BINARY collation compares them by
Alphabet == <<Quote, ",", "1", "2", ":",
              "A", "B", "C", "D", "E", "F", "G", "H", "I", "J", "K", "L", "M",
              "N", "O", "P", "Q", "R", "S", "T", "U", "V", "W", "X", "Y", "Z",
              "[", Backslash, "]",
              "a", "b", "c", "d", "e", "f", "g", "h", "i", "j", "k", "l", "m",
              "n", "o", "p", "q", "r", "s", "t", "u", "v", "w", "x", "y", "z",
              "{", "}">>
CharRank(c) == CHOOSE i \in 1..Len(Alphabet) : Alphabet[i] = c

RECURSIVE TextLess(_, _)
TextLess(a, b) ==
    IF b = <<>> THEN FALSE
    ELSE IF a = <<>> THEN TRUE
    ELSE IF Head(a) = Head(b) THEN TextLess(Tail(a), Tail(b))
    ELSE CharRank(Head(a)) < CharRank(Head(b))

\* ------------------------------------------------------------------------
\* The SQLite driver
\* ------------------------------------------------------------------------
\* How a JavaScript value is bound to a `?`: undefined and null become NULL,
\* a boolean becomes the integer 1 or 0, text and numbers are kept.
BindParam(v) ==
    CASE v.t = "undefined" -> Null
      [] v.t = "boolean" -> Num(IF v.b THEN 1 ELSE 0)
      [] OTHER -> v

\* `x ? JSON.stringify(x) : null`
StringifyOrNull(x) == IF Truthy(x) THEN JSONStringify(x) ELSE Null

\* The errors a statement's callback can receive
SqlFault == "SQLITE_IOERR: disk I/O error"
SqlUnique == "SQLITE_CONSTRAINT: UNIQUE constraint failed: formulas.key"
SqlNotNull == "SQLITE_CONSTRAINT: NOT NULL constraint failed"

\* ------------------------------------------------------------------------
\* Requests
\* ------------------------------------------------------------------------
\* A request being handled: the endpoint, req.body, the position of the
\* handler (pc), the row the lookup returned, the statement save-formula
\* chose (sql), the responses written to res and the lines written to the
\* console.
NewReq(ep, body) ==
    [ep |-> ep, body |-> body, pc |-> "new", row |-> Undefined, sql |-> Undefined,
     res |-> <<>>, log |-> <<>>, calls |-> 0, def |-> 1]

Send(r, resp) == [r EXCEPT !.res = Append(@, resp), !.pc = "done"]
Logged(r, line) == [r EXCEPT !.log = Append(@, line)]

Arrived(r) == reqs' = Append(reqs, r)
CanArrive == Len(reqs) < MaxReq
Step(i, r) == reqs' = [reqs EXCEPT ![i] = r]

\* ------------------------------------------------------------------------
\* POST /api/save-formula
\* ------------------------------------------------------------------------
FormulaFields == {"category", "subject", "topic", "sub_topic", "formula",
                  "description", "variables", "connections", "examples",
                  "verified_by_ai", "custom_user"}
CompositeFields == {"variables", "connections", "examples"}

\* Faulty variant: `if (!key)`
FormulaRejectedKeyOnly(body) == ~Truthy(body.key)

\* `if (!key || !formula)`
FormulaRejected(body) == ~Truthy(body.key) \/ ~Truthy(body.formula)

\* The values bound to the columns, UPDATE and INSERT alike
FormulaParams(body) ==
    [f \in FormulaFields |->
        IF f \in CompositeFields THEN BindParam(StringifyOrNull(body[f]))
        ELSE BindParam(body[f])]

\* SELECT id FROM formulas WHERE key = ? (db.get: the first row or undefined)
SelectIdByKey(tbl, key) ==
    LET hits == {i \in 1..Len(tbl) : tbl[i].key = BindParam(key)}
    IN  IF hits = {} THEN Undefined
        ELSE [t |-> "row", id |-> tbl[CHOOSE i \in hits : \A j \in hits : i <= j].id]

\* Faulty variant: a partial patch, SET col = COALESCE(?, col)
UpdateFormulaPatch(tbl, params, key, ts) ==
    [i \in 1..Len(tbl) |->
        IF tbl[i].key = BindParam(key)
        THEN [f \in DOMAIN tbl[i] |->
                 IF f \in FormulaFields
                 THEN (IF params[f] = Null THEN tbl[i][f] ELSE params[f])
                 ELSE IF f = "timestamp" THEN ts
                 ELSE tbl[i][f]]
        ELSE tbl[i]]

\* Faulty variant: `WHERE id = ?` with the key still bound to it: no row has
\* that id
UpdateFormulaNoRow(tbl, params, key, ts) ==
    [i \in 1..Len(tbl) |->
        IF Num(tbl[i].id) = BindParam(key)
        THEN [f \in DOMAIN tbl[i] |->
                 IF f \in FormulaFields THEN params[f]
                 ELSE IF f = "timestamp" THEN ts
                 ELSE tbl[i][f]]
        ELSE tbl[i]]

\* UPDATE formulas SET <all columns> = ?, timestamp = CURRENT_TIMESTAMP WHERE key = ?
UpdateFormula(tbl, params, key, ts) ==
    [i \in 1..Len(tbl) |->
        IF tbl[i].key = BindParam(key)
        THEN [f \in DOMAIN tbl[i] |->
                 IF f \in FormulaFields THEN params[f]
                 ELSE IF f = "timestamp" THEN ts
                 ELSE tbl[i][f]]
        ELSE tbl[i]]

\* Faulty variant: the schema without UNIQUE on key
FormulaConstraintNotUnique(tbl, key) == IF key = Null THEN SqlNotNull ELSE ""

\* key TEXT UNIQUE NOT NULL: the error an INSERT of `key` into tbl raises, if any
FormulaConstraint(tbl, key) ==
    IF key = Null THEN SqlNotNull
    ELSE IF \E i \in 1..Len(tbl) : tbl[i].key = key THEN SqlUnique
    ELSE ""

\* INSERT INTO formulas (...) VALUES (...): id from AUTOINCREMENT,
\* timestamp from its DEFAULT
InsertFormula(tbl, lastSeq, params, key, ts) ==
    LET id == lastSeq + 1
    IN  Append(tbl, [f \in FormulaFields \cup {"id", "key", "timestamp"} |->
                        IF f = "id" THEN id
                        ELSE IF f = "key" THEN BindParam(key)
                        ELSE IF f = "timestamp" THEN ts
                        ELSE params[f]])

\* The synchronous part of the handler: validation, then db.get is issued
SaveFormulaArrive(body) ==
    /\ CanArrive
    /\ LET r == NewReq("save-formula", body)
       IN  IF FormulaRejected(body)
           THEN Arrived(Send(r, [status |-> 400, success |-> FALSE,
                                 error |-> "Key and formula are required."]))
           ELSE Arrived([r EXCEPT !.pc = "get"])
    /\ UNCHANGED <<tables, env, now>>

\* `sql` and `params` as the callback of db.get sets them: the statement, the
\* column of its WHERE clause and the parameter bound there
FormulaSql(row, body) ==
    IF Truthy(row)
    THEN [verb |-> "UPDATE", where |-> "key", arg |-> BindParam(body.key)]
    ELSE [verb |-> "INSERT", where |-> "", arg |-> Null]

\* The callback of db.get: an error is answered; otherwise db.run is issued
SaveFormulaLookup(i) ==
    /\ reqs[i].ep = "save-formula" /\ reqs[i].pc = "get"
    /\ \E fault \in BOOLEAN :
          IF fault
          THEN Step(i, Send(Logged(reqs[i], "Error checking formula existence:"),
                            [status |-> 500, success |-> FALSE,
                             error |-> "Database error.", dbError |-> SqlFault]))
          ELSE LET row == SelectIdByKey(formulas, reqs[i].body.key)
               IN  Step(i, [reqs[i] EXCEPT !.row = row,
                                           !.sql = FormulaSql(row, reqs[i].body),
                                           !.pc = "run"])
    /\ UNCHANGED <<tables, env, now>>

\* Faulty variant: an INSERT that falls back to the UPDATE when the key exists
FormulaStatementUpsert(row, body, tbl, lastSeq, ts) ==
    IF Truthy(row) \/ FormulaConstraint(tbl, BindParam(body.key)) = SqlUnique
    THEN [err |-> "", rows |-> UpdateFormula(tbl, FormulaParams(body), body.key, ts),
          seq |-> lastSeq, lastID |-> lastSeq]
    ELSE [err |-> "", seq |-> lastSeq + 1, lastID |-> lastSeq + 1,
          rows |-> InsertFormula(tbl, lastSeq, FormulaParams(body), body.key, ts)]

\* Faulty variant: INSERT OR REPLACE, which removes the row of the key and
\* inserts a new one under a new id
FormulaStatementReplace(row, body, tbl, lastSeq, ts) ==
    IF Truthy(row)
    THEN [err |-> "", rows |-> UpdateFormula(tbl, FormulaParams(body), body.key, ts),
          seq |-> lastSeq, lastID |-> lastSeq]
    ELSE LET c == FormulaConstraint(tbl, BindParam(body.key))
             rest == SelectSeq(tbl, LAMBDA t : t.key # BindParam(body.key))
         IN  IF c = SqlNotNull
             THEN [err |-> c, rows |-> tbl, seq |-> lastSeq, lastID |-> lastSeq]
             ELSE [err |-> "", seq |-> lastSeq + 1, lastID |-> lastSeq + 1,
                   rows |-> InsertFormula(rest, lastSeq, FormulaParams(body), body.key, ts)]

\* What the statement chosen by `if (row)` does to the table:
\* [err, rows, seq, lastID]
FormulaStatement(row, body, tbl, lastSeq, ts) ==
    IF Truthy(row)
    THEN [err |-> "", rows |-> UpdateFormula(tbl, FormulaParams(body), body.key, ts),
          seq |-> lastSeq, lastID |-> lastSeq]
    ELSE LET c == FormulaConstraint(tbl, BindParam(body.key))
         IN  IF c # ""
             THEN [err |-> c, rows |-> tbl, seq |-> lastSeq, lastID |-> lastSeq]
             ELSE [err |-> "", seq |-> lastSeq + 1, lastID |-> lastSeq + 1,
                   rows |-> InsertFormula(tbl, lastSeq, FormulaParams(body), body.key, ts)]

\* Faulty variant: `id: this.changes`
FormulaSavedChanges(row, lastID) ==
    [status |-> 200, success |-> TRUE, message |-> "Formula saved successfully.",
     id |-> 1]

\* res.json({ success: true, message, id: row ? row.id : this.lastID })
FormulaSaved(row, lastID) ==
    [status |-> 200, success |-> TRUE, message |-> "Formula saved successfully.",
     id |-> IF Truthy(row) THEN row.id ELSE lastID]

\* Faulty variant: `res.json({...})` without `.status(500)`
FormulaFailedNoStatus(msg) ==
    [status |-> 200, success |-> FALSE, error |-> "Failed to save formula.",
     dbError |-> msg]

FormulaFailed(msg) ==
    [status |-> 500, success |-> FALSE, error |-> "Failed to save formula.",
     dbError |-> msg]

\* db.run executes the statement and its callback answers the request
SaveFormulaRun(i) ==
    /\ reqs[i].ep = "save-formula" /\ reqs[i].pc = "run"
    /\ \E fault \in BOOLEAN :
          LET r == reqs[i]
              out == FormulaStatement(r.row, r.body, formulas,
                                      sqlite_sequence.formulas, now)
          IN  IF fault \/ out.err # ""
              THEN /\ Step(i, Send(Logged(r, "Error saving/updating formula:"),
                                   FormulaFailed(IF fault THEN SqlFault ELSE out.err)))
                   /\ UNCHANGED <<formulas, sqlite_sequence>>
              ELSE /\ formulas' = out.rows
                   /\ sqlite_sequence' = [sqlite_sequence EXCEPT !.formulas = out.seq]
                   /\ Step(i, Send(Logged(r, "Formula saved/updated."),
                                   FormulaSaved(r.row, out.lastID)))
    /\ UNCHANGED <<problems, submitted_content, env, now>>


\* ------------------------------------------------------------------------
\* GET /api/get-formulas
\* ------------------------------------------------------------------------
\* ORDER BY key ASC
RECURSIVE InsertByKey(_, _)
InsertByKey(sorted, row) ==
    IF sorted = <<>> THEN <<row>>
    ELSE IF TextLess(row.key.cs, Head(sorted).key.cs) THEN <<row>> \o sorted
    ELSE <<Head(sorted)>> \o InsertByKey(Tail(sorted), row)

RECURSIVE OrderByKey(_)
OrderByKey(tbl) ==
    IF tbl = <<>> THEN <<>>
    ELSE InsertByKey(OrderByKey(SubSeq(tbl, 1, Len(tbl) - 1)), tbl[Len(tbl)])

\* Faulty variant: the stored text is returned as it is
ParseOrRaw(v, dflt) == IF Truthy(v) THEN v ELSE dflt

\* `row.f ? JSON.parse(row.f) : dflt`
ParseOr(v, dflt) == IF Truthy(v) THEN JSONParse(v) ELSE dflt

\* rows.map(row => ({...row, f: row.f ? JSON.parse(row.f) : dflt})) for f in fields
ParseColumns(rows, fields, dflt) ==
    [i \in 1..Len(rows) |->
        [f \in DOMAIN rows[i] |->
            IF f \in fields THEN ParseOr(rows[i][f], dflt) ELSE rows[i][f]]]

\* JSON.parse throws inside the map: nothing catches it in a driver callback
Throws(rows, fields) ==
    \E i \in 1..Len(rows) : \E f \in fields :
        Truthy(rows[i][f]) /\ JSONParse(rows[i][f]) = ParseError

ListArrive(ep) ==
    /\ CanArrive
    /\ Arrived([NewReq(ep, Undefined) EXCEPT !.pc = "all"])
    /\ UNCHANGED <<tables, env, now>>

GetFormulasArrive == ListArrive("get-formulas")

\* What the callback of db.all does with the rows it is given
ListDone(i, rows, fields, dflt, name, fault) ==
    /\ IF fault
       THEN Step(i, Send(Logged(reqs[i], "Error retrieving:"),
                         [status |-> 500, success |-> FALSE,
                          error |-> "Failed to retrieve.", dbError |-> SqlFault]))
       ELSE IF Throws(rows, fields)
       THEN Step(i, [reqs[i] EXCEPT !.pc = "crashed"])
       ELSE Step(i, Send(reqs[i], [status |-> 200, success |-> TRUE, name |-> name,
                                   data |-> ParseColumns(rows, fields, dflt)]))
    /\ UNCHANGED <<tables, env, now>>

GetFormulasAll(i) ==
    /\ reqs[i].ep = "get-formulas" /\ reqs[i].pc = "all"
    /\ \E fault \in BOOLEAN :
          ListDone(i, OrderByKey(formulas), CompositeFields, Arr(<<>>), "formulas", fault)

\* ------------------------------------------------------------------------
\* POST /api/save-problem, GET /api/get-problems
\* ------------------------------------------------------------------------
ProblemFields == {"text", "answer", "formulaKeys", "difficulty", "subject", "topic",
                  "analysis", "hint", "custom_user"}

\* `if (!text || !answer)`
ProblemRejected(body) == ~Truthy(body.text) \/ ~Truthy(body.answer)

ProblemParams(body) ==
    [f \in ProblemFields |->
        IF f = "formulaKeys" THEN BindParam(StringifyOrNull(body[f]))
        ELSE BindParam(body[f])]

\* text TEXT NOT NULL, answer TEXT NOT NULL
ProblemConstraint(params) ==
    IF params.text = Null \/ params.answer = Null THEN SqlNotNull ELSE ""

\* Faulty variant: a problem whose text and answer are already stored is not added
InsertProblemOnce(tbl, lastSeq, params, ts) ==
    IF \E i \in 1..Len(tbl) : tbl[i].text = params.text /\ tbl[i].answer = params.answer
    THEN tbl
    ELSE Append(tbl, [f \in ProblemFields \cup {"id", "timestamp"} |->
                         IF f = "id" THEN lastSeq + 1
                         ELSE IF f = "timestamp" THEN ts
                         ELSE params[f]])

\* INSERT INTO problems (...) VALUES (...)
InsertProblem(tbl, lastSeq, params, ts) ==
    Append(tbl, [f \in ProblemFields \cup {"id", "timestamp"} |->
                    IF f = "id" THEN lastSeq + 1
                    ELSE IF f = "timestamp" THEN ts
                    ELSE params[f]])

SaveProblemArrive(body) ==
    /\ CanArrive
    /\ LET r == NewReq("save-problem", body)
       IN  IF ProblemRejected(body)
           THEN Arrived(Send(r, [status |-> 400, success |-> FALSE,
                                 error |-> "Problem text and answer are required."]))
           ELSE Arrived([r EXCEPT !.pc = "run"])
    /\ UNCHANGED <<tables, env, now>>

SaveProblemRun(i) ==
    /\ reqs[i].ep = "save-problem" /\ reqs[i].pc = "run"
    /\ \E fault \in BOOLEAN :
          LET r == reqs[i]
              params == ProblemParams(r.body)
              err == IF fault THEN SqlFault ELSE ProblemConstraint(params)
          IN  IF err # ""
              THEN /\ Step(i, Send(Logged(r, "Error saving problem:"),
                                   [status |-> 500, success |-> FALSE,
                                    error |-> "Failed to save problem.",
                                    dbError |-> err]))
                   /\ UNCHANGED <<problems, sqlite_sequence>>
              ELSE /\ problems' = InsertProblem(problems, sqlite_sequence.problems,
                                                params, now)
                   /\ sqlite_sequence' = [sqlite_sequence EXCEPT !.problems = @ + 1]
                   /\ Step(i, Send(Logged(r, "Problem saved with ID:"),
                                   [status |-> 200, success |-> TRUE,
                                    message |-> "Problem saved successfully.",
                                    id |-> sqlite_sequence.problems + 1]))
    /\ UNCHANGED <<formulas, submitted_content, env, now>>

\* ORDER BY timestamp DESC: every order of the rows in which the timestamps
\* do not increase (SQL leaves the order of equal timestamps open)
RECURSIVE Orders(_)
Orders(rows) ==
    IF rows = {} THEN {<<>>}
    ELSE UNION {{<<r>> \o rest : rest \in Orders(rows \ {r})} :
                    r \in {x \in rows : \A y \in rows : y.timestamp <= x.timestamp}}

OrderByTimestampDesc(tbl) == Orders({tbl[i] : i \in 1..Len(tbl)})

GetProblemsArrive == ListArrive("get-problems")

GetProblemsAll(i) ==
    /\ reqs[i].ep = "get-problems" /\ reqs[i].pc = "all"
    /\ \E fault \in BOOLEAN : \E rows \in OrderByTimestampDesc(problems) :
          ListDone(i, rows, {"formulaKeys"}, Arr(<<>>), "problems", fault)

\* ------------------------------------------------------------------------
\* POST /api/save-content, GET /api/get-saved-content
\* ------------------------------------------------------------------------
\* `if (!prompt)`
ContentRejected(body) == ~Truthy(body.prompt)

\* [prompt, schema ? JSON.stringify(schema) : null, ai_response]
ContentParams(prompt, schema, ai_response) ==
    [prompt |-> BindParam(prompt),
     schema |-> BindParam(StringifyOrNull(schema)),
     ai_response |-> BindParam(ai_response)]

\* prompt TEXT NOT NULL
ContentConstraint(params) == IF params.prompt = Null THEN SqlNotNull ELSE ""

\* INSERT INTO submitted_content (prompt, schema, ai_response) VALUES (?, ?, ?)
\* Faulty variant: INSERT OR REPLACE with prompt as the key, which removes the
\* earlier rows of the prompt
InsertContentReplacing(tbl, lastSeq, params, ts) ==
    Append(SelectSeq(tbl, LAMBDA t : t.prompt # params.prompt),
           [id |-> lastSeq + 1, prompt |-> params.prompt,
            schema |-> params.schema, ai_response |-> params.ai_response,
            timestamp |-> ts])

InsertContent(tbl, lastSeq, params, ts) ==
    Append(tbl, [id |-> lastSeq + 1, prompt |-> params.prompt,
                 schema |-> params.schema, ai_response |-> params.ai_response,
                 timestamp |-> ts])

SaveContentArrive(body) ==
    /\ CanArrive
    /\ LET r == NewReq("save-content", body)
       IN  IF ContentRejected(body)
           THEN Arrived(Send(r, [status |-> 400, success |-> FALSE,
                                 error |-> "Prompt is required."]))
           ELSE Arrived([r EXCEPT !.pc = "run"])
    /\ UNCHANGED <<tables, env, now>>

SaveContentRun(i) ==
    /\ reqs[i].ep = "save-content" /\ reqs[i].pc = "run"
    /\ \E fault \in BOOLEAN :
          LET r == reqs[i]
              params == ContentParams(r.body.prompt, r.body.schema, r.body.ai_response)
              err == IF fault THEN SqlFault ELSE ContentConstraint(params)
          IN  IF err # ""
              THEN /\ Step(i, Send(Logged(r, "Error saving content:"),
                                   [status |-> 500, success |-> FALSE,
                                    error |-> "Failed to save content.",
                                    dbError |-> err]))
                   /\ UNCHANGED <<submitted_content, sqlite_sequence>>
              ELSE /\ submitted_content' =
                          InsertContent(submitted_content,
                                        sqlite_sequence.submitted_content, params, now)
                   /\ sqlite_sequence' =
                          [sqlite_sequence EXCEPT !.submitted_content = @ + 1]
                   /\ Step(i, Send(Logged(r, "Content saved with ID:"),
                                   [status |-> 200, success |-> TRUE,
                                    message |-> "Content saved successfully.",
                                    id |-> sqlite_sequence.submitted_content + 1]))
    /\ UNCHANGED <<formulas, problems, env, now>>

GetSavedContentArrive == ListArrive("get-saved-content")

GetSavedContentAll(i) ==
    /\ reqs[i].ep = "get-saved-content" /\ reqs[i].pc = "all"
    /\ \E fault \in BOOLEAN : \E rows \in OrderByTimestampDesc(submitted_content) :
          ListDone(i, rows, {"schema"}, Null, "data", fault)

\* ------------------------------------------------------------------------
\* GET /api/config
\* ------------------------------------------------------------------------
Config ==
    /\ CanArrive
    /\ Arrived(Send(NewReq("config", Undefined),
                    [status |-> 200, success |-> TRUE, data |-> env]))
    /\ UNCHANGED <<tables, env, now>>

\* ------------------------------------------------------------------------
\* POST /api/call-gemini (defined twice in the file: def 1 takes the
\* credential from the request or the environment, def 2 from the environment)
\* ------------------------------------------------------------------------
GeminiKey(def, body) ==
    IF def = 1 THEN Or(body.apiKey, env.GEMINI_API_KEY) ELSE env.GEMINI_API_KEY

\* Faulty variant: `if (GEMINI_API_KEY === undefined)`
GeminiRejectedUndefinedOnly(def, body) ==
    IF def = 1 THEN body.apiKey = Undefined /\ env.GEMINI_API_KEY = Undefined
    ELSE env.GEMINI_API_KEY = Undefined

\* `if (!GEMINI_API_KEY)`
GeminiRejected(def, body) == ~Truthy(GeminiKey(def, body))

\* Up to the await of model.generateContent
CallGeminiArrive(def, body) ==
    /\ CanArrive
    /\ LET r == [NewReq("call-gemini", body) EXCEPT !.def = def]
       IN  IF GeminiRejected(def, body)
           THEN Arrived(Send(r, [status |-> 400, success |-> FALSE,
                                 error |-> "Gemini API key is missing."]))
           ELSE Arrived([r EXCEPT !.pc = "model", !.calls = 1])
    /\ UNCHANGED <<tables, env, now>>

\* Faulty variant: a failed call is made once more
AfterModelRetry(r, ok, text, message) ==
    IF ok
    THEN [r EXCEPT !.row = text, !.pc = "insert",
                   !.res = Append(@, [status |-> 200, success |-> TRUE, data |-> text])]
    ELSE IF r.calls < 2 THEN [r EXCEPT !.calls = @ + 1]
    ELSE Send(Logged(r, "Error in /api/call-gemini:"),
              [status |-> 500, success |-> FALSE, error |-> message])

\* What the outcome of the awaited call makes of the request: a rejection goes
\* to the catch block; a text queues the INSERT and is answered at once
AfterModel(r, ok, text, message) ==
    IF ok
    THEN [r EXCEPT !.row = text, !.pc = "insert",
                   !.res = Append(@, [status |-> 200, success |-> TRUE, data |-> text])]
    ELSE Send(Logged(r, "Error in /api/call-gemini:"),
              [status |-> 500, success |-> FALSE, error |-> message])

ModelTexts == {Str(<<"R">>)}
ModelErrors == {Str(<<"q", "u", "o", "t", "a">>)}

CallGeminiModel(i) ==
    /\ reqs[i].ep = "call-gemini" /\ reqs[i].pc = "model"
    /\ \E ok \in BOOLEAN : \E text \in ModelTexts : \E message \in ModelErrors :
          Step(i, AfterModel(reqs[i], ok, text, message))
    /\ UNCHANGED <<tables, env, now>>

\* Faulty variant: the callback reports the failed INSERT to the client
AfterInsertReports(r, err) ==
    IF err # ""
    THEN Send(Logged(r, "Error saving AI interaction:"),
              [status |-> 500, success |-> FALSE, error |-> err])
    ELSE [Logged(r, "AI interaction saved with ID:") EXCEPT !.pc = "done"]

\* What the callback of the INSERT does to the request
AfterInsert(r, err) ==
    [Logged(r, IF err # "" THEN "Error saving AI interaction:"
               ELSE "AI interaction saved with ID:") EXCEPT !.pc = "done"]

\* The fire-and-forget INSERT and its callback
CallGeminiInsert(i) ==
    /\ reqs[i].ep = "call-gemini" /\ reqs[i].pc = "insert"
    /\ \E fault \in BOOLEAN :
          LET r == reqs[i]
              params == ContentParams(r.body.prompt, r.body.schema, r.row)
              err == IF fault THEN SqlFault ELSE ContentConstraint(params)
          IN  /\ Step(i, AfterInsert(r, err))
              /\ IF err # ""
                 THEN UNCHANGED <<submitted_content, sqlite_sequence>>
                 ELSE /\ submitted_content' =
                             InsertContent(submitted_content,
                                           sqlite_sequence.submitted_content, params, now)
                      /\ sqlite_sequence' =
                             [sqlite_sequence EXCEPT !.submitted_content = @ + 1]
    /\ UNCHANGED <<formulas, problems, env, now>>

\* ------------------------------------------------------------------------
\* The clock
\* ------------------------------------------------------------------------
Tick ==
    /\ now < MaxClock
    /\ now' = now + 1
    /\ UNCHANGED <<tables, env, reqs>>

\* ------------------------------------------------------------------------
\* The end of a request: once the response is written the handler has
\* returned and the server keeps nothing of the request.
\* ------------------------------------------------------------------------
Forget(i) ==
    /\ reqs[i].pc = "done"
    /\ Len(problems) + Len(submitted_content) <= MaxRows
    /\ reqs' = [n \in 1..(Len(reqs) - 1) |-> IF n < i THEN reqs[n] ELSE reqs[n + 1]]
    /\ UNCHANGED <<tables, env, now>>


\* ------------------------------------------------------------------------
\* Inputs: the request bodies that arrive
\* ------------------------------------------------------------------------
K1 == Str(<<"k", "1">>)
K2 == Str(<<"k", "2">>)
Empty == Str(<<>>)

\* Every field given
FullFormula(key) ==
    [key |-> key, category |-> Str(<<"c">>), subject |-> Str(<<"s">>),
     topic |-> Str(<<"t">>), sub_topic |-> Str(<<"u">>), formula |-> Str(<<"F">>),
     description |-> Str(<<"d">>),
     variables |-> Arr(<<Obj(<<<<<<"n">>, Str(<<"x">>)>>, <<<<"m">>, Str(<<"v">>)>>>>)>>),
     connections |-> Arr(<<K2, K1>>),
     examples |-> Arr(<<Str(<<"e", Quote, Backslash>>)>>),
     verified_by_ai |-> Bool(TRUE), custom_user |-> Str(<<"w">>)]

\* Only key and formula given
BareFormula(key) ==
    [f \in FormulaFields \cup {"key"} |->
        IF f = "key" THEN key ELSE IF f = "formula" THEN Str(<<"f">>) ELSE Undefined]

\* Empty and false values
OddFormula(key) ==
    [key |-> key, category |-> Empty, subject |-> Null,
     topic |-> Str(<<"p">>), sub_topic |-> Undefined, formula |-> Str(<<"g">>),
     description |-> Undefined,
     variables |-> Arr(<<>>), connections |-> Empty, examples |-> Undefined,
     verified_by_ai |-> Bool(FALSE), custom_user |-> Undefined]

FormulaKeys == {K1, K2}
ValidFormulaInputs ==
    {FullFormula(k) : k \in FormulaKeys} \cup {BareFormula(k) : k \in FormulaKeys}
        \cup {OddFormula(k) : k \in FormulaKeys}
InvalidFormulaInputs ==
    {[FullFormula(K1) EXCEPT !.key = v] : v \in {Undefined, Empty}}
        \cup {[BareFormula(K2) EXCEPT !.formula = v] : v \in {Undefined, Empty}}
FormulaInputs == ValidFormulaInputs \cup InvalidFormulaInputs

FullProblem ==
    [text |-> Str(<<"T">>), answer |-> Str(<<"A">>), formulaKeys |-> Arr(<<K1, K2>>),
     difficulty |-> Str(<<"d">>), subject |-> Str(<<"s">>), topic |-> Str(<<"t">>),
     analysis |-> Str(<<"a">>), hint |-> Str(<<"h">>), custom_user |-> Str(<<"w">>)]
BareProblem ==
    [f \in ProblemFields |->
        IF f \in {"text", "answer"} THEN FullProblem[f] ELSE Undefined]
OddProblem == [BareProblem EXCEPT !.formulaKeys = Arr(<<>>), !.hint = Empty]
ValidProblemInputs == {FullProblem, BareProblem, OddProblem}
InvalidProblemInputs ==
    {[FullProblem EXCEPT !.text = v] : v \in {Undefined, Empty}}
        \cup {[BareProblem EXCEPT !.answer = v] : v \in {Undefined, Empty}}
ProblemInputs == ValidProblemInputs \cup InvalidProblemInputs

Schema == Obj(<<<<<<"t">>, Str(<<"s">>)>>>>)
Prompt == Str(<<"P">>)
ValidContentInputs ==
    {[prompt |-> Prompt, schema |-> Undefined, ai_response |-> Undefined],
     [prompt |-> Prompt, schema |-> Schema, ai_response |-> Str(<<"r">>)]}
InvalidContentInputs ==
    {[prompt |-> v, schema |-> Schema, ai_response |-> Str(<<"r">>)] :
        v \in {Undefined, Empty}}
ContentInputs == ValidContentInputs \cup InvalidContentInputs

GeminiInputs ==
    {[prompt |-> Prompt, schema |-> Undefined, apiKey |-> Undefined],
     [prompt |-> Prompt, schema |-> Schema, apiKey |-> Str(<<"K">>)],
     [prompt |-> Undefined, schema |-> Undefined, apiKey |-> Empty]}
GeminiDefs == {1, 2}

EnvWith(key) ==
    [GEMINI_API_KEY |-> key, FIREBASE_API_KEY |-> Str(<<"a">>),
     FIREBASE_AUTH_DOMAIN |-> Str(<<"d">>), FIREBASE_PROJECT_ID |-> Str(<<"p">>),
     FIREBASE_STORAGE_BUCKET |-> Undefined, FIREBASE_MESSAGING_SENDER_ID |-> Undefined,
     FIREBASE_APP_ID |-> Str(<<"i">>)]

\* ------------------------------------------------------------------------
\* Specifications
\* ------------------------------------------------------------------------
\* A fresh database file: the three CREATE TABLE IF NOT EXISTS have run
InitWith(keys) ==
    /\ formulas = <<>>
    /\ problems = <<>>
    /\ submitted_content = <<>>
    /\ sqlite_sequence = [formulas |-> 0, problems |-> 0, submitted_content |-> 0]
    /\ env \in {EnvWith(k) : k \in keys}
    /\ now = 0
    /\ reqs = <<>>

\* The formulas endpoints
InitFormulas == InitWith({Undefined})
NextFormulas ==
    \/ \E body \in FormulaInputs : SaveFormulaArrive(body)
    \/ GetFormulasArrive
    \/ \E i \in 1..Len(reqs) : SaveFormulaLookup(i)
    \/ \E i \in 1..Len(reqs) : SaveFormulaRun(i)
    \/ \E i \in 1..Len(reqs) : GetFormulasAll(i)
    \/ Tick
SpecFormulas == InitFormulas /\ [][NextFormulas]_vars

\* The problems endpoints
InitProblems == InitWith({Undefined})
NextProblems ==
    \/ \E body \in ProblemInputs : SaveProblemArrive(body)
    \/ GetProblemsArrive
    \/ \E i \in 1..Len(reqs) : SaveProblemRun(i)
    \/ \E i \in 1..Len(reqs) : GetProblemsAll(i)
    \/ Tick
SpecProblems == InitProblems /\ [][NextProblems]_vars

\* The endpoints of submitted_content, with and without a configured credential
InitContent == InitWith({Undefined, Str(<<"E">>)})
NextContent ==
    \/ \E body \in ContentInputs : SaveContentArrive(body)
    \/ \E def \in GeminiDefs : \E body \in GeminiInputs : CallGeminiArrive(def, body)
    \/ GetSavedContentArrive
    \/ \E i \in 1..Len(reqs) : SaveContentRun(i)
    \/ \E i \in 1..Len(reqs) : CallGeminiModel(i)
    \/ \E i \in 1..Len(reqs) : CallGeminiInsert(i)
    \/ \E i \in 1..Len(reqs) : GetSavedContentAll(i)
    \/ Tick
SpecContent == InitContent /\ [][NextContent]_vars

\* The whole server
SomeFormulaInputs == {FullFormula(K1), BareFormula(K1)} \cup InvalidFormulaInputs
SomeProblemInputs == {FullProblem, BareProblem} \cup InvalidProblemInputs
SomeGeminiInputs == {[prompt |-> Prompt, schema |-> Schema, apiKey |-> Undefined]}

Init == InitWith({Str(<<"E">>)})
Next ==
    \/ Config
    \/ \E body \in SomeFormulaInputs : SaveFormulaArrive(body)
    \/ \E body \in SomeProblemInputs : SaveProblemArrive(body)
    \/ \E body \in ContentInputs : SaveContentArrive(body)
    \/ \E def \in GeminiDefs : \E body \in SomeGeminiInputs : CallGeminiArrive(def, body)
    \/ GetFormulasArrive
    \/ GetProblemsArrive
    \/ GetSavedContentArrive
    \/ \E i \in 1..Len(reqs) : SaveFormulaLookup(i)
    \/ \E i \in 1..Len(reqs) : SaveFormulaRun(i)
    \/ \E i \in 1..Len(reqs) : GetFormulasAll(i)
    \/ \E i \in 1..Len(reqs) : SaveProblemRun(i)
    \/ \E i \in 1..Len(reqs) : GetProblemsAll(i)
    \/ \E i \in 1..Len(reqs) : SaveContentRun(i)
    \/ \E i \in 1..Len(reqs) : GetSavedContentAll(i)
    \/ \E i \in 1..Len(reqs) : CallGeminiModel(i)
    \/ \E i \in 1..Len(reqs) : CallGeminiInsert(i)
    \/ Tick
Spec == Init /\ [][Next]_vars

\* Every endpoint, with one accepted and one refused body for each save
FewFormulaInputs == {BareFormula(K1), [BareFormula(K1) EXCEPT !.formula = Undefined]}
FewProblemInputs == {BareProblem, [BareProblem EXCEPT !.answer = Empty]}
FewContentInputs ==
    {[prompt |-> v, schema |-> Schema, ai_response |-> Str(<<"r">>)] :
        v \in {Prompt, Empty}}
InitErrors == InitWith({Undefined, Str(<<"E">>)})
NextErrors ==
    \/ Config
    \/ \E body \in FewFormulaInputs : SaveFormulaArrive(body)
    \/ \E body \in FewProblemInputs : SaveProblemArrive(body)
    \/ \E body \in FewContentInputs : SaveContentArrive(body)
    \/ \E def \in GeminiDefs : \E body \in GeminiInputs : CallGeminiArrive(def, body)
    \/ GetFormulasArrive
    \/ GetProblemsArrive
    \/ GetSavedContentArrive
    \/ \E i \in 1..Len(reqs) : SaveFormulaLookup(i)
    \/ \E i \in 1..Len(reqs) : SaveFormulaRun(i)
    \/ \E i \in 1..Len(reqs) : GetFormulasAll(i)
    \/ \E i \in 1..Len(reqs) : SaveProblemRun(i)
    \/ \E i \in 1..Len(reqs) : GetProblemsAll(i)
    \/ \E i \in 1..Len(reqs) : SaveContentRun(i)
    \/ \E i \in 1..Len(reqs) : GetSavedContentAll(i)
    \/ \E i \in 1..Len(reqs) : CallGeminiModel(i)
    \/ \E i \in 1..Len(reqs) : CallGeminiInsert(i)
SpecErrors == InitErrors /\ [][NextErrors]_vars

\* Saving and listing problems and submitted content, with requests leaving
\* when they are answered
InitListing == InitWith({Undefined})
NextListing ==
    \/ SaveProblemArrive(BareProblem)
    \/ \E body \in ValidContentInputs : SaveContentArrive(body)
    \/ GetProblemsArrive
    \/ GetSavedContentArrive
    \/ \E i \in 1..Len(reqs) : SaveProblemRun(i)
    \/ \E i \in 1..Len(reqs) : GetProblemsAll(i)
    \/ \E i \in 1..Len(reqs) : SaveContentRun(i)
    \/ \E i \in 1..Len(reqs) : GetSavedContentAll(i)
    \/ \E i \in 1..Len(reqs) : Forget(i)
    \/ Tick
SpecListing == InitListing /\ [][NextListing]_vars


\* ------------------------------------------------------------------------
\* Properties
\* ------------------------------------------------------------------------
Requests(ep) == {i \in 1..Len(reqs) : reqs[i].ep = ep}
Done(r) == r.pc = "done"
Succeeded(r) == r.res # <<>> /\ r.res[1].success
Refused(r, status) ==
    /\ Len(r.res) = 1
    /\ r.res[1].status = status
    /\ ~r.res[1].success
\* The request's statement failed in the driver, not on a constraint
IoFailed(r) ==
    /\ r.res # <<>>
    /\ ~r.res[1].success
    /\ "dbError" \in DOMAIN r.res[1]
    /\ r.res[1].dbError = SqlFault
RowsOfKey(tbl, key) == {i \in 1..Len(tbl) : tbl[i].key = key}
Ids(tbl) == {tbl[i].id : i \in 1..Len(tbl)}

\* C1: in every reachable state, whatever save-formula requests have run and
\* however they interleaved, no two rows of formulas have the same key.
C1_OneRowPerKey ==
    \A i, j \in 1..Len(formulas) : formulas[i].key = formulas[j].key => i = j

\* Two requests for one key that both looked the key up before any INSERT
\* have both been answered, and the key has its one row.
C1_Witness ==
    \E i, j \in Requests("save-formula") :
        /\ i # j
        /\ reqs[i].body.key = reqs[j].body.key
        /\ Done(reqs[i]) /\ Done(reqs[j])
        /\ ~Truthy(reqs[i].row) /\ ~Truthy(reqs[j].row)
        /\ Succeeded(reqs[i]) /\ Refused(reqs[j], 500)
        /\ Cardinality(RowsOfKey(formulas, reqs[i].body.key)) = 1

\* The column value that holds the request's value v of field f: null for an
\* omitted field, the text that parses back to v for an array, 1/0 for a
\* boolean, the string itself otherwise.
Holds(f, col, v) ==
    CASE v.t \in {"undefined", "null"} -> col = Null
      [] v.t = "boolean" -> col = Num(IF v.b THEN 1 ELSE 0)
      [] v.t = "array" -> col.t = "string" /\ JSONParse(col) = v
      [] v.t = "string" /\ f \notin CompositeFields -> col = v
      [] OTHER -> TRUE
MatchesBody(row, body) == \A f \in FormulaFields : Holds(f, row[f], body[f])

\* C2: when a save-formula request is answered with success, the table holds
\* exactly one row for its key and every mutable field of that row has the
\* value of this request, null where the request omits the field: a second
\* request for a key replaces all of the first request's values.
C2_FullReplace ==
    [][\A i \in Requests("save-formula") :
          (reqs[i].pc = "run" /\ Succeeded(reqs'[i])) =>
              LET hits == RowsOfKey(formulas', reqs[i].body.key)
              IN  /\ Cardinality(hits) = 1
                  /\ \A h \in hits : MatchesBody(formulas'[h], reqs[i].body)]_vars

\* A second request that omits category has updated the row a first request
\* had inserted with a category, and the row's category is null.
C2_Witness ==
    \E i, j \in Requests("save-formula") :
        /\ i < j
        /\ reqs[i].body.key = reqs[j].body.key
        /\ Succeeded(reqs[i]) /\ Succeeded(reqs[j])
        /\ ~Truthy(reqs[i].row) /\ Truthy(reqs[j].row)
        /\ reqs[i].body.category.t = "string" /\ reqs[j].body.category = Undefined
        /\ reqs[i].body.variables.t = "array" /\ reqs[j].body.variables = Undefined
        /\ \E h \in RowsOfKey(formulas, reqs[i].body.key) :
              formulas[h].category = Null /\ formulas[h].variables = Null

\* The requests for key whose lookup found no row and whose INSERT was executed
Racers(key) ==
    {i \in Requests("save-formula") :
        /\ reqs[i].body.key = key
        /\ Done(reqs[i])
        /\ ~Truthy(reqs[i].row)
        /\ reqs[i].res[1].status # 400
        /\ ~IoFailed(reqs[i])
        /\ (Succeeded(reqs[i]) \/ reqs[i].res[1].error = "Failed to save formula.")}

\* C3: of the save-formula requests for one key that all found the key absent
\* at their lookup, exactly one is answered with success and every other one
\* with status 500, success false and the unique-constraint error; the INSERT
\* that finds the key taken is not retried and is not turned into an UPDATE:
\* it leaves the table as it is and the request gets that one answer.
C3_Racers ==
    \A key \in FormulaKeys :
        Cardinality(Racers(key)) >= 2 =>
            /\ Cardinality({i \in Racers(key) : Succeeded(reqs[i])}) = 1
            /\ \A i \in Racers(key) :
                  ~Succeeded(reqs[i]) => reqs[i].res = <<FormulaFailed(SqlUnique)>>
C3_LostInsert ==
    \A i \in Requests("save-formula") :
        (/\ reqs[i].pc = "run"
         /\ ~Truthy(reqs[i].row)
         /\ RowsOfKey(formulas, reqs[i].body.key) # {}
         /\ reqs'[i].pc # "run"
         /\ ~IoFailed(reqs'[i])) =>
            /\ formulas' = formulas
            /\ reqs'[i].pc = "done"
            /\ reqs'[i].res = <<FormulaFailed(SqlUnique)>>
C3_ConstraintIsBackstop == []C3_Racers /\ [][C3_LostInsert]_vars

\* Both lookups ran before either INSERT; one request was answered with
\* success and the other with the constraint error.
C3_Witness ==
    \E i, j \in Requests("save-formula") :
        /\ i # j
        /\ {i, j} \subseteq Racers(reqs[i].body.key)
        /\ Succeeded(reqs[i])
        /\ reqs[j].res = <<FormulaFailed(SqlUnique)>>


\* absent or empty
Blank(v) == v = Undefined \/ v = Empty
MissingRequired(r) ==
    \/ r.ep = "save-formula" /\ (Blank(r.body.key) \/ Blank(r.body.formula))
    \/ r.ep = "save-problem" /\ (Blank(r.body.text) \/ Blank(r.body.answer))
    \/ r.ep = "save-content" /\ Blank(r.body.prompt)

\* C4: a save request that lacks a required field (save-formula: key, formula;
\* save-problem: text, answer; save-content: prompt; absent or empty) is
\* answered once, with status 400 and success false, on arrival; the step that
\* handles it leaves the three tables unchanged and the handler has ended, so
\* no statement is issued for it.
C4_RejectedUntouched ==
    [][\A i \in 1..Len(reqs') :
          MissingRequired(reqs'[i]) =>
              /\ Refused(reqs'[i], 400)
              /\ reqs'[i].pc = "done"
              /\ (i > Len(reqs) => tables' = tables)]_vars

\* A save-formula request without formula was refused while the table
\* already held a row.
C4_Witness ==
    \E i \in Requests("save-formula") :
        /\ MissingRequired(reqs[i])
        /\ Truthy(reqs[i].body.key)
        /\ Refused(reqs[i], 400)
        /\ formulas # <<>>

SaveFormulaOk == {i \in Requests("save-formula") : Succeeded(reqs[i])}

\* C5 as stated: a successful save-formula response carries the id of the
\* key's row and tells which path was taken, so two equal responses never
\* come from different paths.
C5_IdAndPathFlag ==
    \A i \in SaveFormulaOk :
        /\ \E h \in RowsOfKey(formulas, reqs[i].body.key) :
              formulas[h].id = reqs[i].res[1].id
        /\ \A j \in SaveFormulaOk :
              reqs[i].res[1] = reqs[j].res[1] =>
                  (Truthy(reqs[i].row) <=> Truthy(reqs[j].row))

\* C5 (amended): a successful save-formula response is {success, message, id}
\* and nothing else: id is the id of the row the lookup found when the key was
\* present, and the id generated by the INSERT (an id no row had before) when
\* it was not.
C5_IdOnly ==
    [][\A i \in Requests("save-formula") :
          (reqs[i].pc = "run" /\ Succeeded(reqs'[i])) =>
              LET a == reqs'[i].res[1]
                  key == reqs[i].body.key
              IN  /\ DOMAIN a = {"status", "success", "message", "id"}
                  /\ \E h \in RowsOfKey(formulas', key) : formulas'[h].id = a.id
                  /\ IF Truthy(reqs[i].row)
                     THEN \E h \in RowsOfKey(formulas, key) : formulas[h].id = a.id
                     ELSE a.id \notin Ids(formulas)]_vars

\* An insert and an update of one key have been answered with the same response.
C5_Witness ==
    \E i, j \in SaveFormulaOk :
        /\ ~Truthy(reqs[i].row) /\ Truthy(reqs[j].row)
        /\ reqs[i].res[1] = reqs[j].res[1]

SaveProblemOk == {i \in Requests("save-problem") : Succeeded(reqs[i])}

\* C6: problems is append-only. Every save-problem request with text and
\* answer whose INSERT the driver executed is answered with success and the id
\* of its own new row, so the table has as many rows as such requests, with
\* pairwise distinct ids, whether or not text and answer repeat; and a step
\* either leaves problems as it is or appends one row with an unused id.
C6_OneRowPerSave ==
    /\ Len(problems) = Cardinality(SaveProblemOk)
    /\ \A a, b \in 1..Len(problems) : problems[a].id = problems[b].id => a = b
    /\ \A i, j \in SaveProblemOk : reqs[i].res[1].id = reqs[j].res[1].id => i = j
    /\ \A i \in SaveProblemOk :
          \E a \in 1..Len(problems) :
              /\ problems[a].id = reqs[i].res[1].id
              /\ problems[a].text = reqs[i].body.text
              /\ problems[a].answer = reqs[i].body.answer
    /\ \A i \in Requests("save-problem") :
          (Done(reqs[i]) /\ ~MissingRequired(reqs[i])) =>
              (Succeeded(reqs[i]) \/ IoFailed(reqs[i]))
C6_Appends ==
    \/ problems' = problems
    \/ /\ Len(problems') = Len(problems) + 1
       /\ SubSeq(problems', 1, Len(problems)) = problems
       /\ problems'[Len(problems')].id \notin Ids(problems)
C6_AppendOnly == []C6_OneRowPerSave /\ [][C6_Appends]_vars

\* Two requests with the same text and answer have left two rows.
C6_Witness ==
    \E i, j \in SaveProblemOk :
        /\ i # j
        /\ reqs[i].body = reqs[j].body
        /\ Len(problems) = 2
        /\ problems[1].text = problems[2].text
        /\ problems[1].answer = problems[2].answer
        /\ problems[1].id # problems[2].id

\* The model call of the request has returned its text
ModelReturned(r) == r.ep = "call-gemini" /\ r.row # Undefined

\* C7: once the model call of a call-gemini request has returned its text, the
\* request has exactly one response, {success: true, data: text}, while the
\* INSERT is still pending and after it has succeeded or failed.
C7_AnswerIgnoresInsert ==
    \A i \in Requests("call-gemini") :
        ModelReturned(reqs[i]) =>
            /\ reqs[i].pc \in {"insert", "done"}
            /\ reqs[i].res = <<[status |-> 200, success |-> TRUE, data |-> reqs[i].row]>>

\* The INSERT of an answered request has failed and was logged.
C7_Witness ==
    \E i \in Requests("call-gemini") :
        /\ ModelReturned(reqs[i])
        /\ Done(reqs[i])
        /\ reqs[i].log = <<"Error saving AI interaction:">>
        /\ Succeeded(reqs[i])

NoCredential(r) ==
    /\ r.ep = "call-gemini"
    /\ ~Truthy(r.body.apiKey)
    /\ ~Truthy(env.GEMINI_API_KEY)

\* C8: a call-gemini request with no credential in the request and none in the
\* environment is answered 400 with success false on arrival; the model is
\* not called for it and the step leaves submitted_content (and the other
\* tables) unchanged.
C8_NoCredential ==
    [][\A i \in 1..Len(reqs') :
          NoCredential(reqs'[i]) =>
              /\ Refused(reqs'[i], 400)
              /\ reqs'[i].pc = "done"
              /\ reqs'[i].calls = 0
              /\ reqs'[i].log = <<>>
              /\ (i > Len(reqs) => tables' = tables)]_vars

\* Both definitions of the endpoint have refused a request without credential.
C8_Witness ==
    \E i, j \in Requests("call-gemini") :
        /\ reqs[i].def = 1 /\ reqs[j].def = 2
        /\ NoCredential(reqs[i]) /\ NoCredential(reqs[j])
        /\ Refused(reqs[i], 400) /\ Refused(reqs[j], 400)

\* The model call of the request has failed
ModelFailed(r) ==
    r.ep = "call-gemini" /\ r.calls >= 1 /\ r.pc # "model" /\ r.row = Undefined

\* C9: a call-gemini request whose model call fails is answered once, with
\* status 500, success false and the upstream message as error; the model was
\* called once, nothing is inserted, and the step leaves the tables unchanged.
C9_UpstreamFailure ==
    [][\A i \in 1..Len(reqs') :
          ModelFailed(reqs'[i]) =>
              /\ Refused(reqs'[i], 500)
              /\ reqs'[i].res[1].error \in ModelErrors
              /\ reqs'[i].pc = "done"
              /\ reqs'[i].calls = 1
              /\ reqs'[i].log = <<"Error in /api/call-gemini:">>
              /\ (i <= Len(reqs) /\ reqs[i].pc = "model" => tables' = tables)]_vars

C9_Witness ==
    \E i \in Requests("call-gemini") :
        /\ ModelFailed(reqs[i])
        /\ Refused(reqs[i], 500)
        /\ reqs[i].calls = 1

\* What the list endpoint returns (out) for a composite field saved as v
Back(v, out, dflt) ==
    CASE v.t = "array" /\ v.items # <<>> -> out = v
      [] v.t = "object" -> out = v
      [] v = Undefined -> out = dflt
      [] OTHER -> TRUE
\* The column that stores a composite field saved as v
Kept(v, col) == v = Undefined => col = Null
Listed(ep) == {i \in Requests(ep) : Succeeded(reqs[i])}
Rows(tbl) == {tbl[i] : i \in 1..Len(tbl)}

\* C10: every row a list endpoint returns carries, in each composite field,
\* what a successful save of that row gave: the same non-empty array where an
\* array was saved, the empty array where the list-valued field was omitted,
\* null where schema was omitted; and the stored column of an omitted
\* composite field is null.
C10_RoundTrip ==
    /\ \A l \in Listed("get-formulas") : \A d \in Rows(reqs[l].res[1].data) :
          \E s \in SaveFormulaOk :
              /\ reqs[s].body.key = d.key
              /\ \A f \in CompositeFields : Back(reqs[s].body[f], d[f], Arr(<<>>))
    /\ \A l \in Listed("get-problems") : \A d \in Rows(reqs[l].res[1].data) :
          \E s \in SaveProblemOk :
              /\ reqs[s].res[1].id = d.id
              /\ Back(reqs[s].body.formulaKeys, d.formulaKeys, Arr(<<>>))
    /\ \A l \in Listed("get-saved-content") : \A d \in Rows(reqs[l].res[1].data) :
          \E s \in Requests("save-content") \cup Requests("call-gemini") :
              /\ Done(reqs[s]) /\ Succeeded(reqs[s])
              /\ reqs[s].ep = "save-content" => reqs[s].res[1].id = d.id
              /\ Back(reqs[s].body.schema, d.schema, Null)
    /\ \A t \in Rows(formulas) :
          \E s \in SaveFormulaOk :
              /\ reqs[s].body.key = t.key
              /\ \A f \in CompositeFields : Kept(reqs[s].body[f], t[f])
    /\ \A t \in Rows(problems) :
          \E s \in SaveProblemOk :
              /\ reqs[s].res[1].id = t.id
              /\ Kept(reqs[s].body.formulaKeys, t.formulaKeys)
    /\ \A t \in Rows(submitted_content) :
          \E s \in Requests("save-content") \cup Requests("call-gemini") :
              /\ Done(reqs[s]) /\ Succeeded(reqs[s])
              /\ reqs[s].ep = "save-content" => reqs[s].res[1].id = t.id
              /\ Kept(reqs[s].body.schema, t.schema)

\* A formula saved with an array of variables has been listed with that array.
C10_Witness ==
    \E l \in Listed("get-formulas") : \E d \in Rows(reqs[l].res[1].data) :
        \E s \in SaveFormulaOk :
            /\ reqs[s].body.key = d.key
            /\ reqs[s].body.variables.t = "array"
            /\ reqs[s].body.variables.items # <<>>
            /\ d.variables = reqs[s].body.variables
            /\ reqs[s].body.examples = d.examples

\* ------------------------------------------------------------------------
\* Rows are numbered by AUTOINCREMENT, so of two rows of one table the one
\* inserted later has the greater id.
NewestFirst(data) ==
    \A a \in 1..Len(data) : \A b \in 1..Len(data) :
        a < b => data[a].id > data[b].id

\* C11: get-problems and get-saved-content return rows newest first: of any
\* two rows the later-inserted one comes before the earlier one in the
\* returned sequence, also when both were inserted within one tick of the
\* timestamp.
C11_NewestFirst ==
    \A l \in Listed("get-problems") \cup Listed("get-saved-content") :
        NewestFirst(reqs[l].res[1].data)

\* ------------------------------------------------------------------------
\* The errors of a handler: a body the validation refuses, no credential,
\* and the failures the handlers report on the console.
BodyRefused(r) ==
    CASE r.ep = "save-formula" -> FormulaRejected(r.body)
      [] r.ep = "save-problem" -> ProblemRejected(r.body)
      [] r.ep = "save-content" -> ContentRejected(r.body)
      [] r.ep = "call-gemini" -> GeminiRejected(r.def, r.body)
      [] OTHER -> FALSE
HasLine(r, lines) == \E n \in 1..Len(r.log) : r.log[n] \in lines
ErrorLines ==
    {"Error checking formula existence:", "Error saving/updating formula:",
     "Error retrieving:", "Error saving problem:", "Error saving content:",
     "Error in /api/call-gemini:"}
InsertErrorLine == {"Error saving AI interaction:"}
\* One response {success:false, error} with status 400 or 500
Envelope(r) ==
    /\ Len(r.res) = 1
    /\ ~r.res[1].success
    /\ r.res[1].status \in {400, 500}
    /\ "error" \in DOMAIN r.res[1]
AnsweredOnce ==
    \A i \in 1..Len(reqs) :
        /\ Len(reqs[i].res) <= 1
        /\ reqs[i].pc # "crashed"
        /\ Done(reqs[i]) => Len(reqs[i].res) = 1
\* The step that a handler waiting in a callback takes next
Continue(i) ==
    \/ SaveFormulaLookup(i) \/ SaveFormulaRun(i) \/ GetFormulasAll(i)
    \/ SaveProblemRun(i) \/ GetProblemsAll(i) \/ SaveContentRun(i)
    \/ GetSavedContentAll(i) \/ CallGeminiModel(i) \/ CallGeminiInsert(i)

\* C12 as stated: every error arising while a request is handled (validation
\* failure, missing credential, storage failure at lookup or at write,
\* upstream failure) becomes exactly one response {success:false, error}
\* with status 400 or 500; no request is answered twice, none is left
\* without a response and the process does not crash.
C12_EveryErrorEnveloped ==
    /\ AnsweredOnce
    /\ \A i \in 1..Len(reqs) :
          BodyRefused(reqs[i]) \/ HasLine(reqs[i], ErrorLines \cup InsertErrorLine)
              => Envelope(reqs[i])

\* C12, amended: every such error becomes exactly one response
\* {success:false, error} with status 400 (refused body, no credential) or
\* 500 (storage or upstream failure), except a failure of the INSERT of
\* call-gemini, which comes after the request was answered {success:true}
\* and is only written to the console; no request is answered twice, the
\* process does not crash, and a request without a response has a callback
\* pending that will answer it.
C12_ErrorsEnveloped ==
    /\ AnsweredOnce
    /\ \A i \in 1..Len(reqs) :
          /\ BodyRefused(reqs[i]) =>
                Envelope(reqs[i]) /\ reqs[i].res[1].status = 400 /\ Done(reqs[i])
          /\ HasLine(reqs[i], ErrorLines) =>
                Envelope(reqs[i]) /\ reqs[i].res[1].status = 500 /\ Done(reqs[i])
          /\ HasLine(reqs[i], InsertErrorLine) =>
                /\ reqs[i].ep = "call-gemini" /\ Done(reqs[i])
                /\ reqs[i].res = <<[status |-> 200, success |-> TRUE,
                                    data |-> reqs[i].row]>>
          /\ reqs[i].res = <<>> => ENABLED Continue(i)

\* A lookup of save-formula has failed and was answered with the envelope,
\* and an INSERT of call-gemini has failed behind its success response.
C12_Witness ==
    /\ \E i \in 1..Len(reqs) :
          /\ HasLine(reqs[i], {"Error checking formula existence:"})
          /\ Envelope(reqs[i])
    /\ \E j \in 1..Len(reqs) :
          /\ HasLine(reqs[j], InsertErrorLine)
          /\ Succeeded(reqs[j])

\* ------------------------------------------------------------------------
\* The save-formula requests on the update path, their statement chosen
Updating == {i \in Requests("save-formula") : reqs[i].pc = "run" /\ Truthy(reqs[i].row)}

\* C13 as stated: on the update path of save-formula the UPDATE is run
\* against the identity (id) of the row the lookup returned, not against
\* the key.
C13_UpdateById ==
    \A i \in Updating :
        /\ reqs[i].sql.verb = "UPDATE"
        /\ reqs[i].sql.where = "id"
        /\ reqs[i].sql.arg = Num(reqs[i].row.id)

C13_ByKey ==
    \A i \in Updating :
        /\ reqs[i].sql = [verb |-> "UPDATE", where |-> "key",
                          arg |-> reqs[i].body.key]
        /\ \A h \in 1..Len(formulas) :
              formulas[h].key = reqs[i].sql.arg <=> formulas[h].id = reqs[i].row.id
C13_SameRow ==
    \A i \in Updating :
        Succeeded(reqs'[i]) =>
            /\ Len(formulas') = Len(formulas)
            /\ \A h \in 1..Len(formulas) :
                  /\ formulas'[h].id = formulas[h].id
                  /\ formulas'[h].key = formulas[h].key
                  /\ formulas[h].id # reqs[i].row.id => formulas'[h] = formulas[h]
                  /\ formulas[h].id = reqs[i].row.id =>
                        /\ formulas'[h].formula = reqs[i].body.formula
                        /\ formulas'[h].timestamp = now
\* C13, amended: on the update path the UPDATE is run against the key
\* (WHERE key = ?, the request's key bound to it), not against the id; the
\* key selects exactly the row whose id the lookup returned, so that row,
\* and no other, is the one the UPDATE rewrites.
C13_UpdateByKeySameRow == []C13_ByKey /\ [][C13_SameRow]_vars

\* An UPDATE with its WHERE clause on key has rewritten the row the lookup
\* returned.
C13_Witness ==
    \E i \in SaveFormulaOk :
        /\ Truthy(reqs[i].row)
        /\ reqs[i].sql.where = "key"
        /\ \E h \in 1..Len(formulas) :
              /\ formulas[h].id = reqs[i].row.id
              /\ formulas[h].formula = reqs[i].body.formula

\* ------------------------------------------------------------------------
C14_OneIdPerKey ==
    /\ \A i, j \in SaveFormulaOk :
          reqs[i].body.key = reqs[j].body.key => reqs[i].res[1].id = reqs[j].res[1].id
    /\ \A i \in SaveFormulaOk :
          \A h \in 1..Len(formulas) :
              formulas[h].key = reqs[i].body.key <=> formulas[h].id = reqs[i].res[1].id
    /\ \A a, b \in 1..Len(formulas) : formulas[a].id = formulas[b].id => a = b
    /\ \A a \in 1..Len(formulas) : formulas[a].id <= sqlite_sequence.formulas
C14_IdsKept ==
    /\ Len(formulas') >= Len(formulas)
    /\ \A h \in 1..Len(formulas) :
          formulas'[h].id = formulas[h].id /\ formulas'[h].key = formulas[h].key
    /\ \A h \in (Len(formulas) + 1)..Len(formulas') :
          formulas'[h].id > sqlite_sequence.formulas
\* C14: the id of a formula key is stable: every save-formula request for
\* key k that is answered with success returns the same id, the id k's row
\* was given when it was inserted; a row keeps its id and its key for ever,
\* and a new row gets an id no row has had, so the id is never the id of a
\* row with another key.
C14_StableId == []C14_OneIdPerKey /\ [][C14_IdsKept]_vars

\* A key was inserted by one request and updated by a later one, and both
\* were answered with the id of the key's row.
C14_Witness ==
    \E i, j \in SaveFormulaOk :
        /\ i # j
        /\ reqs[i].body.key = reqs[j].body.key
        /\ ~Truthy(reqs[i].row) /\ Truthy(reqs[j].row)
        /\ reqs[i].res[1].id = reqs[j].res[1].id
        /\ \E h \in 1..Len(formulas) :
              formulas[h].key = reqs[i].body.key /\ formulas[h].id = reqs[j].res[1].id

\* ------------------------------------------------------------------------
\* The endpoints of the requests that arrive or move in a step
Acting ==
    {reqs'[n].ep : n \in {m \in 1..Len(reqs') : m > Len(reqs) \/ reqs'[m] # reqs[m]}}
Reading == {"config", "get-formulas", "get-problems", "get-saved-content"}
Appended(old, new) ==
    /\ Len(new) = Len(old) + 1
    /\ SubSeq(new, 1, Len(old)) = old
C15_Frame ==
    /\ formulas' # formulas =>
          /\ Acting = {"save-formula"}
          /\ UNCHANGED <<problems, submitted_content>>
          /\ Len(formulas') >= Len(formulas)
          /\ \A h \in 1..Len(formulas) :
                formulas'[h].id = formulas[h].id /\ formulas'[h].key = formulas[h].key
    /\ problems' # problems =>
          /\ Acting = {"save-problem"}
          /\ UNCHANGED <<formulas, submitted_content>>
          /\ Appended(problems, problems')
    /\ submitted_content' # submitted_content =>
          /\ Acting \in {{"save-content"}, {"call-gemini"}}
          /\ UNCHANGED <<formulas, problems>>
          /\ Appended(submitted_content, submitted_content')
    /\ Acting \subseteq Reading => UNCHANGED tables
    /\ Acting \subseteq {"save-formula"} => UNCHANGED <<problems, submitted_content>>
    /\ Acting \subseteq {"save-problem"} => UNCHANGED <<formulas, submitted_content>>
    /\ Acting \subseteq {"save-content", "call-gemini"} => UNCHANGED <<formulas, problems>>
\* C15: each operation changes only its own table and nothing is ever
\* deleted: a step of save-formula leaves submitted_content and problems
\* unchanged and keeps every row of formulas, a step of save-problem leaves
\* formulas and submitted_content unchanged and only appends to problems,
\* save-content and call-gemini only append a row to submitted_content, and
\* the config and the three list endpoints change no table.
C15_OwnTableOnly == [][C15_Frame]_vars

\* A formula and a submitted content have been saved, each leaving the other
\* table as it was, and the content row saved first is still the first row.
C15_Witness ==
    /\ \E i \in SaveFormulaOk : Len(formulas) = 1
    /\ \E j \in Requests("save-content") \cup Requests("call-gemini") :
          /\ Done(reqs[j]) /\ Succeeded(reqs[j])
          /\ Len(submitted_content) = 1
          /\ submitted_content[1].prompt = reqs[j].body.prompt

====
